---- MODULE Spec2Model ----
(***************************************************************************)
(* histolab/masks.py: BinaryMask.__call__, BiggestTissueBoxMask._mask      *)
(* (memoised by functools.lru_cache) and BiggestTissueBoxMask._regions.    *)
(*                                                                         *)
(* SpecRegions  calls the pure function _regions on bounded inputs.        *)
(* Spec         calls strategy(slide) from one thread, one whole call per  *)
(*              step.                                                      *)
(* SpecThreads  calls strategy(slide) from several threads; a call is cut  *)
(*              where lru_cache's wrapper releases its lock: lookup, the   *)
(*              wrapped function, the insertion of the result.             *)
(***************************************************************************)
EXTENDS Integers, Sequences, FiniteSets, TLC

VARIABLES
    cache,      \* lru_cache of _mask: sequence of [key, result], least recently used first
    calls,      \* number of invocations of each step of _mask (instrumentation)
    now,        \* number of strategy(slide) calls started so far
    storedAt,   \* history: key -> value of now when its entry was inserted (0: never)
    usedAt,     \* history: key -> value of now when its entry was last inserted or hit
    prev,       \* history: the completed call before last
    last,       \* history: the last completed call
    threads,    \* SpecThreads: each thread's position in its strategy(slide) call
    sel         \* SpecRegions: the last _regions call, its arguments and outcome

vars == <<cache, calls, now, storedAt, usedAt, prev, last, threads, sel>>

None == [kind |-> "none"]

-----------------------------------------------------------------------------
(* Bounds *)

MaxLen == 3        \* longest list of regions passed to _regions
MaxCalls == 4      \* strategy(slide) calls in one behaviour
CacheBound == 2    \* capacity the cache is checked with

-----------------------------------------------------------------------------
(* _regions (masks.py 79-104) *)

Areas == {1, 2, 5, 20}

\* A Region as _regions sees it: an object (id: its identity) with an area.
Region(id, area) == [id |-> id, area |-> area]

\* The list whose i-th element is a distinct Region object of area as[i].
RegionList(as) == [i \in 1..Len(as) |-> Region(i, as[i])]

AreaLists == UNION {[1..k -> Areas] : k \in 0..MaxLen}

Min(a, b) == IF a <= b THEN a ELSE b
Max(a, b) == IF a >= b THEN a ELSE b

\* Python's s[:n]: a negative n counts from the end, and the stop is clamped.
SliceTo(s, n) ==
    LET stop == IF n < 0 THEN Max(Len(s) + n, 0) ELSE Min(n, Len(s))
    IN  SubSeq(s, 1, stop)

\* One step of a stable descending sort: r goes after every element whose
\* key is >= its own.
RECURSIVE InsertDesc(_, _)
InsertDesc(r, s) ==
    IF s = <<>> THEN <<r>>
    ELSE IF Head(s).area >= r.area THEN <<Head(s)>> \o InsertDesc(r, Tail(s))
    ELSE <<r>> \o s

\* One step of a stable ascending sort.
RECURSIVE InsertAsc(_, _)
InsertAsc(r, s) ==
    IF s = <<>> THEN <<r>>
    ELSE IF Head(s).area <= r.area THEN <<Head(s)>> \o InsertAsc(r, Tail(s))
    ELSE <<r>> \o s

RECURSIVE SortAsc(_)
SortAsc(s) ==
    IF s = <<>> THEN <<>>
    ELSE InsertAsc(s[Len(s)], SortAsc(SubSeq(s, 1, Len(s) - 1)))

Reverse(s) == [i \in 1..Len(s) |-> s[Len(s) + 1 - i]]

\* Mutant: sorted(regions, key=area)[::-1], which reverses ties.
sorted_reversed(regions) == Reverse(SortAsc(regions))

\* Mutant: sorted(regions, key=area) without reverse=True.
sorted_ascending(regions) == SortAsc(regions)

\* sorted(regions, key=lambda r: r.area, reverse=True): a stable sort, and
\* reverse=True keeps the original order of elements with equal keys.
RECURSIVE sorted_regions(_)
sorted_regions(regions) ==
    IF regions = <<>> THEN <<>>
    ELSE InsertDesc(regions[Len(regions)],
                    sorted_regions(SubSeq(regions, 1, Len(regions) - 1)))

\* raise ValueError(f"n should be between 1 and {len(regions)}, got {n}"),
\* the message as its literal and formatted parts.
ValueError(regions, n) ==
    [kind |-> "ValueError",
     message |-> <<"n should be between 1 and ", Len(regions), ", got ", n>>]

Return(value) == [kind |-> "return", value |-> value]

\* Mutant: the check `if not n <= len(regions)`, the lower bound forgotten.
valid_n_no_lower(regions, n) == n <= Len(regions)

\* 1 <= n <= len(regions)
valid_n(regions, n) == 1 <= n /\ n <= Len(regions)

\* Mutant: return sorted(regions, ...) unsliced.
take_all(sorted, n) == sorted

\* Mutant: sorted_regions[-n:], the last n of the sorted list.
take_last(sorted, n) == SubSeq(sorted, Len(sorted) - n + 1, Len(sorted))

\* sorted_regions[:n]
take(sorted, n) == SliceTo(sorted, n)

_regions(regions, n) ==
    IF ~valid_n(regions, n) THEN ValueError(regions, n)
    ELSE Return(take(sorted_regions(regions), n))

-----------------------------------------------------------------------------
(* The collaborators of _mask (masks.py 68-76) *)

Instances == {1, 2}     \* BiggestTissueBoxMask objects
Slides == {1, 2, 3}     \* Slide objects

Box(x_ul, y_ul, x_br, y_br) ==
    [x_ul |-> x_ul, y_ul |-> y_ul, x_br |-> x_br, y_br |-> y_br]

\* slide.thumbnail_size, (width, height): fixed for a slide object.
thumbnail_size(slide) ==
    CASE slide = 1 -> <<6, 5>>
      [] slide = 2 -> <<3, 3>>
      [] slide = 3 -> <<4, 6>>

\* slide.dimensions, the full-resolution (width, height).
dimensions(slide) ==
    CASE slide = 1 -> <<60, 50>>
      [] slide = 2 -> <<30, 30>>
      [] slide = 3 -> <<40, 60>>

\* slide.wsi.get_thumbnail(size): the slide's image at that size.
get_thumbnail(slide, size) == [of |-> slide, size |-> size]

\* FiltersComposition(Slide).tissue_mask_filters applied to the thumbnail:
\* a binary array of the thumbnail's dimensions.
filters(thumb) == [of |-> thumb.of, size |-> thumb.size, binary |-> TRUE]

\* regions_from_binary_mask(thumb_mask): the connected components, each a
\* Region with an area and coordinates. Slide 2 segments into no region,
\* slide 3 into two biggest regions of equal area.
regions_from_binary_mask(thumb_mask) ==
    CASE thumb_mask.of = 1 ->
            << [id |-> 1, area |-> 4,  coords |-> Box(0, 0, 1, 1)],
               [id |-> 2, area |-> 12, coords |-> Box(2, 1, 5, 3)],
               [id |-> 3, area |-> 1,  coords |-> Box(0, 4, 0, 4)] >>
      [] thumb_mask.of = 2 -> << >>
      [] thumb_mask.of = 3 ->
            << [id |-> 1, area |-> 3, coords |-> Box(0, 0, 2, 0)],
               [id |-> 2, area |-> 3, coords |-> Box(0, 2, 2, 2)],
               [id |-> 3, area |-> 2, coords |-> Box(0, 4, 1, 4)] >>

\* region_coordinates(region)
region_coordinates(region) == region.coords

\* polygon_to_mask_array(dims, vertices): a binary mask of dims = (width,
\* height), true inside the polygon.
polygon_to_mask_array(dims, vertices) ==
    [width |-> dims[1], height |-> dims[2],
     true |-> {p \in (0..dims[1] - 1) \X (0..dims[2] - 1) :
                 /\ vertices.x_ul <= p[1] /\ p[1] <= vertices.x_br
                 /\ vertices.y_ul <= p[2] /\ p[2] <= vertices.y_br}]

-----------------------------------------------------------------------------
(* BiggestTissueBoxMask._mask (masks.py 59-77) *)

\* The calls _mask makes, in order.
Steps == <<"get_thumbnail", "filters", "regions_from_binary_mask",
           "_regions", "region_coordinates", "polygon_to_mask_array">>

StepNo(name) == CHOOSE i \in 1..Len(Steps) : Steps[i] = name

\* The collaborator whose call raises in this execution, or "none".
Failures == {"none", "get_thumbnail", "filters", "regions_from_binary_mask",
             "region_coordinates", "polygon_to_mask_array"}

CollaboratorError(name) == [kind |-> "CollaboratorError", from |-> name]

\* An exception leaving _mask at its k-th call.
Raise(k, error) == [kind |-> "raise", error |-> error, steps |-> k]

\* _mask returning after all its calls.
ReturnMask(mask) == [kind |-> "return", value |-> mask, steps |-> Len(Steps)]

\* Mutant: the mask drawn at the slide's full-resolution dimensions.
mask_dims_full(slide) == dimensions(slide)

\* The dimensions handed to polygon_to_mask_array (line 75).
mask_dims(slide) == thumbnail_size(slide)

_mask(slide, fail) ==
    LET thumb == get_thumbnail(slide, thumbnail_size(slide))
        thumb_mask == filters(thumb)
        regions == regions_from_binary_mask(thumb_mask)
        biggest == _regions(regions, 1)
    IN  IF fail = "get_thumbnail" THEN Raise(1, CollaboratorError(fail))
        ELSE IF fail = "filters" THEN Raise(2, CollaboratorError(fail))
        ELSE IF fail = "regions_from_binary_mask"
             THEN Raise(3, CollaboratorError(fail))
        ELSE IF biggest.kind = "ValueError" THEN Raise(4, biggest)
        ELSE IF fail = "region_coordinates" THEN Raise(5, CollaboratorError(fail))
        ELSE IF fail = "polygon_to_mask_array"
             THEN Raise(6, CollaboratorError(fail))
        ELSE ReturnMask(polygon_to_mask_array(
                            mask_dims(slide),
                            region_coordinates(biggest.value[1])))

\* The call counts after an execution of _mask that made its first k calls.
Counted(c, k) ==
    [name \in DOMAIN c |-> IF StepNo(name) <= k THEN c[name] + 1 ELSE c[name]]

-----------------------------------------------------------------------------
(* @lru_cache(maxsize=100) around _mask (masks.py 58) *)

\* lru_cache's maxsize. The source sets 100; the eviction logic does not
\* depend on the value, and the model is checked with CacheBound.
maxsize == CacheBound

Keys == Instances \X Slides

\* Mutant: a key that leaves self out.
make_key_slide_only(self, slide) == <<0, slide>>

\* The cache key of _mask(self, slide): the positional arguments, self
\* included, so one cache serves every instance of the class.
make_key(self, slide) == <<self, slide>>

Position(c, key) ==
    IF \E i \in 1..Len(c) : c[i].key = key
    THEN CHOOSE i \in 1..Len(c) : c[i].key = key
    ELSE 0

Without(c, i) == SubSeq(c, 1, i - 1) \o SubSeq(c, i + 1, Len(c))

CachedKeys(c) == {c[i].key : i \in 1..Len(c)}

\* cache_get(key): the entry, or None.
cache_get(c, key) == IF Position(c, key) = 0 THEN None ELSE c[Position(c, key)]

\* Mutant: a hit leaves the entry where it is (first in, first out).
hit_keep_order(c, key) == c

\* A hit moves the entry to the most recently used end.
hit(c, key) ==
    LET i == Position(c, key) IN Append(Without(c, i), c[i])

\* Mutant: the cache grows without evicting.
insert_unbounded(c, key, result) ==
    IF Position(c, key) # 0 THEN c
    ELSE Append(c, [key |-> key, result |-> result])

\* After the wrapped function returned: a key that another call inserted
\* meanwhile is left alone; a full cache drops its least recently used
\* entry; the new entry is the most recently used.
insert(c, key, result) ==
    IF Position(c, key) # 0 THEN c
    ELSE IF Len(c) >= maxsize
         THEN Append(Tail(c), [key |-> key, result |-> result])
    ELSE Append(c, [key |-> key, result |-> result])

\* Mutant: nothing is memoised.
after_call_no_store(c, key, out) == c

\* Mutant: a failure is memoised like a result.
after_call_memoise_all(c, key, out) ==
    insert(c, key, IF out.kind = "return" THEN out.value ELSE out.error)

\* An exception of the wrapped function leaves the wrapper before the
\* insertion; a returned value is inserted.
after_call(c, key, out) ==
    IF out.kind = "return" THEN insert(c, key, out.value) ELSE c

-----------------------------------------------------------------------------
(* State *)

NoCalls == [name \in {Steps[i] : i \in 1..Len(Steps)} |-> 0]

Threads == {1, 2}

Idle == [pc |-> "idle", key |-> <<0, 0>>, out |-> None]

InitCache ==
    /\ cache = <<>>
    /\ calls = NoCalls
    /\ now = 0
    /\ storedAt = [k \in Keys |-> 0]
    /\ usedAt = [k \in Keys |-> 0]
    /\ prev = None
    /\ last = None
    /\ threads = [t \in Threads |-> Idle]

Init ==
    /\ InitCache
    /\ sel = None

\* The arguments of a _regions call: a list of up to MaxLen distinct Region
\* objects and any n around the valid range.
InitRegions ==
    /\ InitCache
    /\ sel \in {[regions |-> RegionList(as), n |-> n, out |-> None] :
                  as \in AreaLists, n \in (-2)..(MaxLen + 1)}

-----------------------------------------------------------------------------
(* Operations *)

\* BiggestTissueBoxMask._regions(regions, n)
SelectRegions ==
    /\ sel.out = None
    /\ sel' = [sel EXCEPT !.out = _regions(sel.regions, sel.n)]
    /\ UNCHANGED <<cache, calls, now, storedAt, usedAt, prev, last, threads>>

\* What the caller of strategy(slide) gets: the value or the exception.
Outcome(out) ==
    IF out.kind = "return" THEN [kind |-> "return", value |-> out.value]
    ELSE [kind |-> "raise", error |-> out.error]

CallRecord(self, slide, wasHit, outcome) ==
    [kind |-> "call", self |-> self, slide |-> slide, hit |-> wasHit,
     outcome |-> outcome,
     callsBefore |-> calls, cacheBefore |-> cache, usedBefore |-> usedAt,
     storedBefore |-> storedAt]

Earlier(call) ==
    IF call = None THEN None
    ELSE [kind |-> "call", self |-> call.self, slide |-> call.slide,
          outcome |-> call.outcome]

\* BinaryMask.__call__(self, slide) in one thread: return self._mask(slide),
\* _mask being the lru_cache wrapper. fail: the collaborator that raises if
\* the wrapped function runs.
Call(self, slide, fail) ==
    /\ now < MaxCalls
    /\ LET key == make_key(self, slide)
           link == cache_get(cache, key)
           out == _mask(slide, fail)
       IN  IF link # None
           THEN /\ fail = "none"
                /\ cache' = hit(cache, key)
                /\ calls' = calls
                /\ storedAt' = storedAt
                /\ usedAt' = [usedAt EXCEPT ![key] = now + 1]
                /\ last' = CallRecord(self, slide, TRUE,
                                    [kind |-> "return", value |-> link.result])
           ELSE /\ cache' = after_call(cache, key, out)
                /\ calls' = Counted(calls, out.steps)
                /\ storedAt' = IF Position(cache', key) # 0
                               THEN [storedAt EXCEPT ![key] = now + 1]
                               ELSE storedAt
                /\ usedAt' = IF Position(cache', key) # 0
                             THEN [usedAt EXCEPT ![key] = now + 1]
                             ELSE usedAt
                /\ last' = CallRecord(self, slide, FALSE, Outcome(out))
    /\ now' = now + 1
    /\ prev' = Earlier(last)
    /\ UNCHANGED <<threads, sel>>

\* Thread t enters the wrapper: the lookup, under the wrapper's lock. A hit
\* returns at once; a miss goes on to call the wrapped function, unlocked.
Lookup(t, self, slide) ==
    /\ now < MaxCalls
    /\ threads[t].pc = "idle"
    /\ LET key == make_key(self, slide)
           link == cache_get(cache, key)
       IN  IF link # None
           THEN /\ cache' = hit(cache, key)
                /\ usedAt' = [usedAt EXCEPT ![key] = now + 1]
                /\ threads' = threads
           ELSE /\ cache' = cache
                /\ usedAt' = usedAt
                /\ threads' = [threads EXCEPT ![t] =
                                 [pc |-> "call", key |-> key, out |-> None]]
    /\ now' = now + 1
    /\ UNCHANGED <<calls, storedAt, prev, last, sel>>

\* Thread t runs the wrapped function _mask(self, slide), holding no lock.
Compute(t, fail) ==
    /\ threads[t].pc = "call"
    /\ LET out == _mask(threads[t].key[2], fail)
       IN  /\ calls' = Counted(calls, out.steps)
           /\ threads' = [threads EXCEPT ![t] =
                            IF out.kind = "return"
                            THEN [pc |-> "insert", key |-> threads[t].key, out |-> out]
                            ELSE Idle]
    /\ UNCHANGED <<cache, now, storedAt, usedAt, prev, last, sel>>

\* Thread t stores the returned value, under the wrapper's lock, and returns.
Store(t) ==
    /\ threads[t].pc = "insert"
    /\ LET key == threads[t].key
       IN  /\ cache' = after_call(cache, key, threads[t].out)
           /\ storedAt' = IF Position(cache, key) = 0
                          THEN [storedAt EXCEPT ![key] = now]
                          ELSE storedAt
           /\ usedAt' = IF Position(cache, key) = 0
                        THEN [usedAt EXCEPT ![key] = now]
                        ELSE usedAt
    /\ threads' = [threads EXCEPT ![t] = Idle]
    /\ UNCHANGED <<calls, now, prev, last, sel>>

Next ==
    \E self \in Instances, slide \in Slides, fail \in Failures :
        Call(self, slide, fail)

Spec == Init /\ [][Next]_vars

NextRegions == SelectRegions

SpecRegions == InitRegions /\ [][NextRegions]_vars

NextThreads ==
    \/ \E t \in Threads, self \in Instances, slide \in Slides :
           Lookup(t, self, slide)
    \/ \E t \in Threads, fail \in Failures : Compute(t, fail)
    \/ \E t \in Threads : Store(t)

SpecThreads == Init /\ [][NextThreads]_vars

-----------------------------------------------------------------------------
(* Properties of _regions, under SpecRegions *)

Called == sel.out # None

ValidN == 1 <= sel.n /\ sel.n <= Len(sel.regions)

AreasOf(rs) == [i \in 1..Len(rs) |-> rs[i].area]

IdsOf(rs) == {rs[i].id : i \in 1..Len(rs)}

\* The position in the returned list of the region that was i-th in the
\* input, 0 when it is not returned.
OutputPosition(i) ==
    IF \E j \in 1..Len(sel.out.value) : sel.out.value[j].id = i
    THEN CHOOSE j \in 1..Len(sel.out.value) : sel.out.value[j].id = i
    ELSE 0

\* C1: for 1 <= n <= len(regions), _regions returns exactly n regions whose
\* areas are non-increasing along the returned list.
C1_ExactlyNNonIncreasing ==
    (Called /\ ValidN) =>
        /\ sel.out.kind = "return"
        /\ Len(sel.out.value) = sel.n
        /\ \A i \in 1..(Len(sel.out.value) - 1) :
               sel.out.value[i].area >= sel.out.value[i + 1].area

\* Scenario 1: areas [5, 20, 1], n = 1 give [20].
C1_Witness ==
    /\ Called
    /\ AreasOf(sel.regions) = <<5, 20, 1>>
    /\ sel.n = 1
    /\ sel.out.kind = "return"
    /\ AreasOf(sel.out.value) = <<20>>

\* C2: the returned regions are the n of greatest area: every returned
\* region is an element of the input, none is returned twice, and no region
\* left out has a greater area than a returned one.
C2_NGreatest ==
    (Called /\ ValidN) =>
        /\ sel.out.kind = "return"
        /\ \A j \in 1..Len(sel.out.value) :
               \E i \in 1..Len(sel.regions) : sel.out.value[j] = sel.regions[i]
        /\ \A j, k \in 1..Len(sel.out.value) :
               sel.out.value[j].id = sel.out.value[k].id => j = k
        /\ \A i \in 1..Len(sel.regions) :
               OutputPosition(i) = 0 =>
                   \A j \in 1..Len(sel.out.value) :
                       sel.regions[i].area <= sel.out.value[j].area

\* Scenario 2: areas [5, 20, 1], n = 2 give [20, 5].
C2_Witness ==
    /\ Called
    /\ AreasOf(sel.regions) = <<5, 20, 1>>
    /\ sel.n = 2
    /\ sel.out.kind = "return"
    /\ AreasOf(sel.out.value) = <<20, 5>>

\* C3: for n < 1 or n > len(regions), the empty list included, _regions
\* raises ValueError and returns no list; the message states the range, 1 to
\* len(regions), and the offending n.
C3_InvalidNRaises ==
    (Called /\ ~ValidN) =>
        /\ sel.out.kind = "ValueError"
        /\ sel.out.message =
               <<"n should be between 1 and ", Len(sel.regions), ", got ", sel.n>>

\* Scenario 3: no region, n = 1 raise with the range "1 and 0".
C3_Witness ==
    /\ Called
    /\ sel.regions = <<>>
    /\ sel.n = 1
    /\ sel.out.kind = "ValueError"
    /\ sel.out.message[2] = 0

\* C4: tie stability: of two regions of equal area, A before B in the input,
\* A comes before B in the output when both are returned, and B is never
\* returned with A left out.
C4_TieStability ==
    (Called /\ ValidN) =>
        /\ sel.out.kind = "return"
        /\ \A a, b \in 1..Len(sel.regions) :
               (a < b /\ sel.regions[a].area = sel.regions[b].area) =>
                   /\ OutputPosition(b) # 0 => OutputPosition(a) # 0
                   /\ OutputPosition(b) # 0 => OutputPosition(a) < OutputPosition(b)

\* Scenario 4: areas [5, 5, 2], n = 2 give [A, B].
C4_Witness ==
    /\ Called
    /\ AreasOf(sel.regions) = <<5, 5, 2>>
    /\ sel.n = 2
    /\ sel.out.kind = "return"
    /\ sel.out.value = <<sel.regions[1], sel.regions[2]>>

-----------------------------------------------------------------------------
(* Properties of strategy(slide) called from one thread, under Spec *)

Returned(call) == call.kind = "call" /\ call.outcome.kind = "return"

Raised(call) == call.kind = "call" /\ call.outcome.kind = "raise"

SameArguments(a, b) == a.self = b.self /\ a.slide = b.slide

\* The entries of cache c that belong to strategy instance j, in order.
EntriesOf(c, j) == SelectSeq(c, LAMBDA e : e.key[1] = j)

\* The keys the last call removed from the cache.
Evicted == CachedKeys(last.cacheBefore) \ CachedKeys(cache)

\* The mask of a slide: what _mask returns when no collaborator fails.
MaskOf(slide) == _mask(slide, "none").value

\* C5: after a call has returned a mask, the next call on the same instance
\* with the same slide returns an equal mask and invokes none of the
\* thumbnail provider, filter pipeline, region extractor, _regions and
\* rasterizer: every call count is unchanged.
C5_CacheHit ==
    (Returned(prev) /\ last.kind = "call" /\ SameArguments(prev, last)) =>
        /\ last.outcome = prev.outcome
        /\ calls = last.callsBefore

C5_Witness ==
    /\ Returned(prev)
    /\ Returned(last)
    /\ SameArguments(prev, last)
    /\ last.hit
    /\ calls["filters"] = 1

\* C6: a failed call stores nothing: the error reaches the caller, the cache
\* is as before the call, no entry ever holds anything but the mask of its
\* slide, and the next call with the same arguments runs the pipeline again.
\* A slide whose segmentation has no region always fails, with the
\* ValueError of _regions(regions, 1) unless a collaborator failed first.
C6_FailureStoresNothing ==
    /\ Raised(last) => (cache = last.cacheBefore /\ ~last.hit)
    /\ \A i \in 1..Len(cache) :
           /\ cache[i].key[2] \in Slides
           /\ regions_from_binary_mask([of |-> cache[i].key[2]]) # <<>>
           /\ cache[i].result = MaskOf(cache[i].key[2])
    /\ (last.kind = "call"
          /\ regions_from_binary_mask([of |-> last.slide]) = <<>>) =>
           /\ Raised(last)
           /\ last.outcome.error.kind \in {"ValueError", "CollaboratorError"}
           /\ last.outcome.error.kind = "ValueError" =>
                  last.outcome.error = ValueError(<<>>, 1)
    /\ (Raised(prev) /\ last.kind = "call" /\ SameArguments(prev, last)) =>
           /\ ~last.hit
           /\ calls["get_thumbnail"] = last.callsBefore["get_thumbnail"] + 1

\* Two calls on a slide without regions: both raise the ValueError, the
\* second after running the pipeline again, and the cache stays empty.
C6_Witness ==
    /\ Raised(prev)
    /\ Raised(last)
    /\ SameArguments(prev, last)
    /\ prev.outcome.error = ValueError(<<>>, 1)
    /\ last.outcome.error = ValueError(<<>>, 1)
    /\ calls["_regions"] = 2
    /\ calls["polygon_to_mask_array"] = 0
    /\ cache = <<>>

\* C7 as claimed: the cache holds at most maxsize entries, and the entry
\* evicted when a new result is stored in a full cache is the one stored
\* earliest, however recently a hit returned it.
C7_OldestStoredEvicted ==
    /\ Len(cache) <= maxsize
    /\ last.kind = "call" =>
           \A k \in Evicted : \A k2 \in CachedKeys(last.cacheBefore) :
               last.storedBefore[k] <= last.storedBefore[k2]

\* C7 as amended: the cache holds at most maxsize entries, and the entry
\* evicted when a new result is stored in a full cache is the least recently
\* used one: the one whose last insertion or hit is the earliest.
C7_LeastRecentlyUsedEvicted ==
    /\ Len(cache) <= maxsize
    /\ last.kind = "call" =>
           /\ Cardinality(Evicted) <= 1
           /\ Evicted # {} =>
                  /\ Len(last.cacheBefore) = maxsize
                  /\ Returned(last)
                  /\ ~last.hit
                  /\ make_key(last.self, last.slide)
                         \notin CachedKeys(last.cacheBefore)
           /\ \A k \in Evicted : \A k2 \in CachedKeys(last.cacheBefore) :
                  last.usedBefore[k] <= last.usedBefore[k2]

\* An eviction of an entry that was not the earliest stored: a hit had
\* refreshed the earliest stored one.
C7_Witness ==
    /\ last.kind = "call"
    /\ \E k \in Evicted : \E k2 \in CachedKeys(last.cacheBefore) :
           /\ last.storedBefore[k2] < last.storedBefore[k]
           /\ last.usedBefore[k] < last.usedBefore[k2]

\* C8: every mask returned, computed or served from the cache, has the width
\* and height of the slide's thumbnail size, not of the full-resolution slide.
C8_MaskHasThumbnailSize ==
    Returned(last) =>
        /\ last.outcome.value.width = thumbnail_size(last.slide)[1]
        /\ last.outcome.value.height = thumbnail_size(last.slide)[2]
        /\ <<last.outcome.value.width, last.outcome.value.height>>
               # dimensions(last.slide)
        /\ \A p \in last.outcome.value.true :
               /\ p[1] \in 0..(thumbnail_size(last.slide)[1] - 1)
               /\ p[2] \in 0..(thumbnail_size(last.slide)[2] - 1)

\* A mask served from the cache after the masks of two other slides or
\* instances were computed.
C8_Witness ==
    /\ Returned(last)
    /\ last.hit
    /\ last.slide = 3
    /\ last.outcome.value.width = 4
    /\ last.outcome.value.height = 6
    /\ calls["polygon_to_mask_array"] = 2

\* C10 as claimed: each instance has a cache of its own: a call on one
\* instance leaves the entries of every other instance as they were.
C10_PerInstanceCache ==
    last.kind = "call" =>
        \A j \in Instances \ {last.self} :
            EntriesOf(cache, j) = EntriesOf(last.cacheBefore, j)

\* C10 as amended: results are cached per (instance, slide) pair in one cache
\* of maxsize entries that all instances share. A call on one instance never
\* replaces or changes the value cached for another instance's pair, and is
\* never served another instance's entry; it removes another instance's
\* entry only by evicting it, as the least recently used entry of the full
\* shared cache.
C10_SharedCachePerPairEntries ==
    /\ Len(cache) <= maxsize
    /\ \A i, j \in 1..Len(cache) : cache[i].key = cache[j].key => i = j
    /\ last.kind = "call" =>
           /\ last.hit =>
                  \E i \in 1..Len(last.cacheBefore) :
                      /\ last.cacheBefore[i].key = <<last.self, last.slide>>
                      /\ last.cacheBefore[i].result = last.outcome.value
           /\ (Returned(last) /\ ~last.hit) =>
                  /\ Position(last.cacheBefore, <<last.self, last.slide>>) = 0
                  /\ cache[Len(cache)] =
                         [key |-> <<last.self, last.slide>>,
                          result |-> last.outcome.value]
           /\ \A j \in Instances \ {last.self} :
                  \/ EntriesOf(cache, j) = EntriesOf(last.cacheBefore, j)
                  \/ /\ Len(last.cacheBefore) = maxsize
                     /\ last.cacheBefore[1].key[1] = j
                     /\ EntriesOf(cache, j) = Tail(EntriesOf(last.cacheBefore, j))

\* A call on one instance evicted an entry of another instance.
C10_Witness ==
    /\ last.kind = "call"
    /\ \E k \in Evicted : k[1] # last.self

-----------------------------------------------------------------------------
(* Property of strategy(slide) called from several threads, under SpecThreads *)

Computing(t, key) == threads[t].pc = "call" /\ threads[t].key = key

\* C9: at most one execution of _mask is in flight for a key at any time.
C9_ComputeOnce ==
    \A key \in Keys : \A t1, t2 \in Threads :
        (Computing(t1, key) /\ Computing(t2, key)) => t1 = t2

====
